---------------------------- MODULE Spec2Model ----------------------------
(***************************************************************************)
(* A model of the talent-string decoder of Raslgodx/talentstree:           *)
(*   src/app.js            the current application (byte-based decoder,    *)
(*                         calibration search, boot sequence)              *)
(*   src/unnamed/part_000  the earlier application (6-bit symbol decoder)  *)
(*                                                                         *)
(* Several specifications share one set of variables; each starts from its *)
(* own initial predicate and leaves the variables it does not use at the   *)
(* idle values given by the Idle... definitions.                           *)
(***************************************************************************)
EXTENDS Integers, Sequences, FiniteSets, TLC

VARIABLES
    code,        \* the text handed to the byte decoder (a sequence of characters)
    decoded,     \* outcome of the byte decoder / of the decode call on `code`
    bytes,       \* ByteBitReader.bytes
    byteI,       \* ByteBitReader.byteI
    bitI,        \* ByteBitReader.bitI
    last,        \* the last reader call: operation, argument, start position, result
    model,       \* the node schema: fullNodeOrder and the node index
    opts,        \* decoder options of the running decodeSelections call
    pc,          \* position of the running decodeSelections call
    hdrI,        \* loop counter i of the header loop (app.js line 172)
    varint,      \* locals shift/out of the running readVarInt and the header values so far
    nodeI,       \* number of fullNodeOrder entries already visited
    byNodeId,    \* the selection table being built
    log,         \* per visited entry: node id, bit position before and after
    q,           \* the query of main: cal flag and whether a code was given
    mainPc,      \* position of main
    best,        \* result of calibrateDecoder
    decoderOpts, \* main's decoderOpts
    selections,  \* main's selections
    calibration, \* the CALIBRATION constant: code, expectedTaken, expectedHeroAll
    candidates,  \* the candidates array of calibrateDecoder, as pushed
    scored       \* outcome of the last scoreDecode call made on its own

vars == <<code, decoded, bytes, byteI, bitI, last, model, opts, pc, hdrI, varint,
          nodeI, byNodeId, log, q, mainPc, best, decoderOpts, selections,
          calibration, candidates, scored>>

Null == "null"

\* F applied to the value of v.  An operator argument is an expression that is
\* evaluated again wherever the operator uses it; a bound variable holds a value.
WithValue(v, F(_)) == CHOOSE r \in {F(x) : x \in {v}} : TRUE

---------------------------------------------------------------------------
(* Bounds of the model *)

MaxBytes == 2       \* longest byte buffer drawn exhaustively
MaxReadBits == 4    \* widest readBits(n) issued (the decoder itself asks for 1..4)
PastEnd == 2        \* how many bytes past the end of the buffer the reader may be driven
MaxCodeBytes == 1   \* longest byte buffer handed to a stepwise decodeSelections call

---------------------------------------------------------------------------
(* Arithmetic on bits *)

RECURSIVE Pow2(_)
Pow2(n) == IF n <= 0 THEN 1 ELSE 2 * Pow2(n - 1)

\* (x >> j) & 1
BitOf(x, j) == (x \div Pow2(j)) % 2

\* The set-bit positions of a 32-bit value stand for the value itself: a JavaScript
\* bitwise operator works on 32 bits, which is more than a TLC integer holds.
BitsOf(x, width) == {j \in 0..(width - 1) : BitOf(x, j) = 1}

RECURSIVE BitsToNat(_)
BitsToNat(S) ==
    IF S = {} THEN 0
    ELSE LET j == CHOOSE k \in S : TRUE IN Pow2(j) + BitsToNat(S \ {j})

\* (x << shift) on 32 bits: the shift count is taken modulo 32, bits leaving the
\* 32-bit word are lost.
Shl32(S, shift) == {j + (shift % 32) : j \in S} \cap (0..31)

---------------------------------------------------------------------------
(* ByteBitReader, app.js lines 102-150 *)

\* this.bytes[i] ?? 0 : an index past the end of a Uint8Array reads undefined
ByteAtBad(bs, i) == IF i < Len(bs) THEN bs[i + 1] ELSE 255
ByteAt(bs, i) == IF i < Len(bs) THEN bs[i + 1] ELSE 0

\* the bit readBits takes from the current byte: (cur >> this.bitI) & 1
CurBitMsbFirst(bs, bI, tI) == BitOf(ByteAt(bs, bI), 7 - tI)
CurBit(bs, bI, tI) == BitOf(ByteAt(bs, bI), tI)

RECURSIVE readBitsLoop(_, _, _, _, _, _)
readBitsLoop(bs, bI, tI, n, b, v) ==
    IF b >= n THEN [v |-> v, byteI |-> bI, bitI |-> tI]
    ELSE LET v2 == v + CurBit(bs, bI, tI) * Pow2(b)      \* v |= bit << b
         IN IF tI + 1 >= 8
            THEN readBitsLoop(bs, bI + 1, 0, n, b + 1, v2)
            ELSE readBitsLoop(bs, bI, tI + 1, n, b + 1, v2)

readBits(bs, bI, tI, n) == readBitsLoop(bs, bI, tI, n, 0, 0)

\* the bit index cleared without moving on to the next byte
alignRewinding(bI, tI) == [byteI |-> bI, bitI |-> 0]

alignToByte(bI, tI) ==
    IF tI # 0 THEN [byteI |-> bI + 1, bitI |-> 0] ELSE [byteI |-> bI, bitI |-> tI]

\* line 140: out |= (byte & 0x7f) << shift
accumulate(out, byte, shift) == out \cup Shl32(BitsOf(byte % 128, 7), shift)

\* line 141: (byte & 0x80) === 0 ends the loop
moreFollows(byte) == (byte \div 128) % 2 # 0

\* lines 138-143: the bytes the loop of readVarInt consumes from byte bI on, and
\* where it leaves the cursor
RECURSIVE readVarIntLoop(_, _, _)
readVarIntLoop(bs, bI, groups) ==
    IF moreFollows(ByteAt(bs, bI))
    THEN readVarIntLoop(bs, bI + 1, Append(groups, ByteAt(bs, bI)))
    ELSE [byteI |-> bI + 1, bitI |-> 0, groups |-> Append(groups, ByteAt(bs, bI))]

\* the value the loop accumulates over these bytes; out >>> 0 reads the same 32
\* bits as an unsigned number, so the bit set is unchanged
RECURSIVE varIntValue(_, _, _, _)
varIntValue(groups, k, shift, out) ==
    IF k > Len(groups) THEN out
    ELSE varIntValue(groups, k + 1, shift + 7, accumulate(out, groups[k], shift))

\* readVarInt: the cursor afterwards and the bytes consumed
readVarInt(bs, bI, tI) ==
    LET a == alignToByte(bI, tI) IN readVarIntLoop(bs, a.byteI, <<>>)

bytesLeft(bs, bI) == IF Len(bs) - bI > 0 THEN Len(bs) - bI ELSE 0


---------------------------------------------------------------------------
(* Idle values of the variable groups a specification does not use *)

EmptyMap == [x \in {} |-> Null]

textVars == <<code, decoded>>
readerVars == <<bytes, byteI, bitI, last>>
decodeVars == <<model, opts, pc, hdrI, varint, nodeI, byNodeId, log>>
mainVars == <<q, mainPc, best, decoderOpts, selections, calibration, candidates,
              scored>>

\* no decode call made yet
NoDecode == [by |-> "none", raised |-> FALSE, bytes |-> <<>>]

IdleText == code = <<>> /\ decoded = NoDecode
\* no reader call made yet
NoCall == [op |-> "none", n |-> 0, from |-> 0, value |-> 0, out |-> {}, left |-> 0]

IdleReader == bytes = <<>> /\ byteI = 0 /\ bitI = 0 /\ last = NoCall
IdleDecode ==
    /\ model = Null /\ opts = Null /\ pc = "idle" /\ hdrI = 0 /\ varint = Null
    /\ nodeI = 0 /\ byNodeId = EmptyMap /\ log = <<>>
\* no scoreDecode call made yet
NoScore == [called |-> FALSE, raised |-> FALSE, score |-> 0]

IdleMain ==
    /\ q = Null /\ mainPc = "idle" /\ best = Null /\ decoderOpts = Null
    /\ selections = EmptyMap /\ calibration = Null /\ candidates = <<>>
    /\ scored = NoScore

---------------------------------------------------------------------------
(* The reader driven by an arbitrary caller: any sequence of readBits,       *)
(* alignToByte and readVarInt calls on one buffer.                           *)

ByteVals == {0, 2, 128, 133, 165}

\* buffers holding variable-length integers of two, five and six groups
VarIntFixtures ==
    { <<133, 2>>, <<255, 255, 255, 255, 127>>, <<128, 128, 128, 128, 128, 1>> }

Buffers(vals, n) == UNION {[1..k -> vals] : k \in 0..n}

Pos == 8 * byteI + bitI

InitReader ==
    /\ bytes \in Buffers(ByteVals, MaxBytes) \cup VarIntFixtures
    /\ byteI = 0 /\ bitI = 0 /\ last = NoCall
    /\ IdleText /\ IdleDecode /\ IdleMain

ReaderInRange == byteI < Len(bytes) + PastEnd

ReadBitsCall ==
    /\ ReaderInRange
    /\ \E n \in 0..MaxReadBits :
         LET r == readBits(bytes, byteI, bitI, n)
         IN /\ byteI' = r.byteI
            /\ bitI' = r.bitI
            /\ last' = [op |-> "readBits", n |-> n, from |-> Pos, value |-> r.v,
                        out |-> {}, left |-> bytesLeft(bytes, r.byteI)]
    /\ UNCHANGED <<bytes, textVars, decodeVars, mainVars>>

AlignToByteCall ==
    /\ ReaderInRange
    /\ LET a == alignToByte(byteI, bitI)
       IN /\ byteI' = a.byteI
          /\ bitI' = a.bitI
          /\ last' = [op |-> "alignToByte", n |-> 0, from |-> Pos, value |-> 0,
                      out |-> {}, left |-> bytesLeft(bytes, a.byteI)]
    /\ UNCHANGED <<bytes, textVars, decodeVars, mainVars>>

ReadVarIntCall ==
    /\ ReaderInRange
    /\ LET r == readVarInt(bytes, byteI, bitI)
       IN /\ byteI' = r.byteI
          /\ bitI' = r.bitI
          /\ last' = [op |-> "readVarInt", n |-> Len(r.groups), from |-> Pos,
                      value |-> 0, out |-> varIntValue(r.groups, 1, 0, {}),
                      left |-> bytesLeft(bytes, r.byteI)]
    /\ UNCHANGED <<bytes, textVars, decodeVars, mainVars>>

NextReader == ReadBitsCall \/ AlignToByteCall \/ ReadVarIntCall

SpecReader == InitReader /\ [][NextReader]_vars

---------------------------------------------------------------------------
(* The bit stream as the format describes it: position 8*i+j is bit j of     *)
(* byte i, counted from the least significant bit; past the end it is 0.     *)

StreamBit(bs, p) ==
    IF p \div 8 < Len(bs) THEN (bs[(p \div 8) + 1] \div Pow2(p % 8)) % 2 ELSE 0

RECURSIVE StreamValue(_, _, _)
StreamValue(bs, p, n) ==
    IF n = 0 THEN 0 ELSE StreamBit(bs, p) + 2 * StreamValue(bs, p + 1, n - 1)

\* C6: readBits(n) returns the n stream bits from the cursor on, least significant
\* first, with 0 for every position past the end of the buffer, and leaves the
\* cursor exactly n positions further on.
C6_ReadBitsIsStreamWindow ==
    (last.op = "readBits") =>
        /\ last.value = StreamValue(bytes, last.from, last.n)
        /\ Pos = last.from + last.n
        /\ bitI \in 0..7

\* a 4-bit read that starts mid-byte inside the buffer, runs past its end and
\* still returns set bits
C6_Witness ==
    /\ last.op = "readBits" /\ last.n = 4
    /\ last.from % 8 # 0
    /\ last.from < 8 * Len(bytes)
    /\ last.from + last.n > 8 * Len(bytes)
    /\ last.value # 0

\* the byte index at which a variable-length integer starting at position p begins
VarIntStart(p) == (p + 7) \div 8

\* the index of the first byte from s on whose high bit is clear
VarIntEnd(bs, s) ==
    CHOOSE e \in s..(Len(bs) + s) :
        /\ StreamBit(bs, 8 * e + 7) = 0
        /\ \A i \in s..(e - 1) : StreamBit(bs, 8 * i + 7) = 1

\* the set-bit positions of the sum over i of (g_i & 0x7F) * 2^(7*i)
VarIntSumBits(bs, s, e) ==
    {7 * (i - s) + j : i \in s..e, j \in 0..6} \cap
    {k \in 0..(7 * (e - s + 1)) :
        StreamBit(bs, 8 * (s + (k \div 7)) + (k % 7)) = 1}

\* C5: readVarInt aligns to the next byte boundary, consumes bytes up to and
\* including the first one with a clear high bit, and returns the sum of their low
\* seven bits weighted by 2^(7*i); on [0x85, 0x02] from position 0 it returns 261
\* and stops at byte 2, bit 0.
C5_VarIntIsWeightedSum ==
    (last.op = "readVarInt") =>
        LET s == VarIntStart(last.from)
            e == VarIntEnd(bytes, s)
        IN /\ last.out = VarIntSumBits(bytes, s, e)
           /\ byteI = e + 1 /\ bitI = 0
           /\ (bytes = <<133, 2>> /\ last.from = 0) =>
                 (BitsToNat(last.out) = 261 /\ byteI = 2)

\* what does hold: the same, for integers of at most four groups
C5_VarIntUpToFourGroups ==
    (last.op = "readVarInt" /\ last.n <= 4) =>
        LET s == VarIntStart(last.from)
            e == VarIntEnd(bytes, s)
        IN /\ last.out = VarIntSumBits(bytes, s, e)
           /\ byteI = e + 1 /\ bitI = 0
           /\ (bytes = <<133, 2>> /\ last.from = 0) =>
                 (BitsToNat(last.out) = 261 /\ byteI = 2)

C5_Scenario ==
    /\ last.op = "readVarInt" /\ bytes = <<133, 2>> /\ last.from = 0
    /\ BitsToNat(last.out) = 261 /\ byteI = 2 /\ bitI = 0

---------------------------------------------------------------------------
(* The node schema.  A node of the index carries its type, its maxRanks and  *)
(* the length of its entries array; node 15 is in fullNodeOrder only.        *)

NodeIndex ==
    (10 :> [type |-> "single", maxRanks |-> 1, entries |-> 1]) @@
    (11 :> [type |-> "choice", maxRanks |-> 1, entries |-> 2]) @@
    (12 :> [type |-> "single", maxRanks |-> 2, entries |-> 1]) @@
    (13 :> [type |-> "choice", maxRanks |-> 1, entries |-> 3]) @@
    (14 :> [type |-> "tiered", maxRanks |-> 3, entries |-> 1])

OrderIds == {10, 11, 12, 13, 15}

MaxNodes == 3       \* longest fullNodeOrder drawn
MaxHeader == 1      \* largest headerVarInts drawn for a stepwise decode

\* the orders: every sequence of distinct ids of at most n entries
Orders(ids, n) ==
    UNION {{o \in [1..k -> ids] : \A a, b \in 1..k : a # b => o[a] # o[b]} :
           k \in 0..n}

ChoiceModes == <<"byEntryCount", "fixed1", "fixed2">>
ChoiceExtraBits == <<FALSE, TRUE>>
RankModes == <<"plus1", "raw", "tiered3">>

Range(f) == {f[x] : x \in DOMAIN f}

OptsWithHeader(hs) ==
    [headerVarInts : hs, choiceMode : Range(ChoiceModes),
     choiceExtraBit : Range(ChoiceExtraBits), rankMode : Range(RankModes)]

---------------------------------------------------------------------------
(* decodeSelections, app.js lines 160-238 *)

\* choiceEntryIndex = null
NoChoice == -1

\* the widths with their boundaries one too low
bitsNeededStrict(maxRanks) ==
    IF maxRanks < 1 THEN 0
    ELSE IF maxRanks < 2 THEN 1
    ELSE IF maxRanks < 4 THEN 2
    ELSE IF maxRanks < 8 THEN 3
    ELSE 4

bitsNeededForMaxRanks(maxRanks) ==
    IF maxRanks <= 1 THEN 0
    ELSE IF maxRanks <= 2 THEN 1
    ELSE IF maxRanks <= 4 THEN 2
    ELSE IF maxRanks <= 8 THEN 3
    ELSE 4

\* lines 202-205
choiceBits(choiceMode, entryCount) ==
    IF choiceMode = "fixed1" THEN 1
    ELSE IF choiceMode = "fixed2" THEN 2
    ELSE IF entryCount <= 2 THEN 1 ELSE 2

\* lines 219-220 and 223-224
rankFromRaw(v, maxRanks) ==
    LET a == IF v <= 0 THEN 1 ELSE v IN IF a > maxRanks THEN maxRanks ELSE a

\* lines 226-227
rankFromPlus1(v, maxRanks) == IF v + 1 > maxRanks THEN maxRanks ELSE v + 1

\* the body of the loop over fullNodeOrder for one entry: the reader afterwards,
\* whether the node is in the index, and the record the entry yields
decodeNodeBody(bs, bI, tI, nodeId, index, o) ==
    LET present == nodeId \in DOMAIN index
        maxRanks == IF present THEN index[nodeId].maxRanks ELSE 1
        nodeType == IF present THEN index[nodeId].type ELSE "single"
        t == readBits(bs, bI, tI, 1)
        result(r, ranks, choice) ==
            [byteI |-> r.byteI, bitI |-> r.bitI, present |-> present,
             rec |-> [taken |-> t.v = 1, ranksTaken |-> ranks, maxRanks |-> maxRanks,
                      choiceEntryIndex |-> choice]]
    IN IF t.v # 1 THEN result(t, 0, NoChoice)
       ELSE IF nodeType = "choice"
       THEN LET entryCount == IF present THEN index[nodeId].entries ELSE 2
                c == readBits(bs, t.byteI, t.bitI,
                              choiceBits(o.choiceMode, entryCount))
                x == IF o.choiceExtraBit THEN readBits(bs, c.byteI, c.bitI, 1) ELSE c
            IN result(x, 1, c.v)
       ELSE LET bn == bitsNeededForMaxRanks(maxRanks)
            IN IF bn = 0 THEN result(t, 1, NoChoice)
               ELSE IF o.rankMode = "raw"
               THEN LET r == readBits(bs, t.byteI, t.bitI, bn)
                    IN result(r, rankFromRaw(r.v, maxRanks), NoChoice)
               ELSE IF o.rankMode = "tiered3"
               THEN LET r == readBits(bs, t.byteI, t.bitI, 3)
                    IN result(r, rankFromRaw(r.v, maxRanks), NoChoice)
               ELSE LET r == readBits(bs, t.byteI, t.bitI, bn)
                    IN result(r, rankFromPlus1(r.v, maxRanks), NoChoice)

\* an entry that is not in the index skipped without reading its bit
decodeNodeSkippingUnknown(bs, bI, tI, nodeId, index, o) ==
    IF nodeId \in DOMAIN index
    THEN decodeNodeBody(bs, bI, tI, nodeId, index, o)
    ELSE [byteI |-> bI, bitI |-> tI, present |-> FALSE,
          rec |-> [taken |-> FALSE, ranksTaken |-> 0, maxRanks |-> 1,
                   choiceEntryIndex |-> NoChoice]]

decodeNode(bs, bI, tI, nodeId, index, o) ==
    decodeNodeBody(bs, bI, tI, nodeId, index, o)

\* byNodeId.set(nodeId, ...) when the node is in the index
setIfPresent(table, nodeId, d) ==
    IF d.present
    THEN [x \in DOMAIN table \cup {nodeId} |-> IF x = nodeId THEN d.rec ELSE table[x]]
    ELSE table

---------------------------------------------------------------------------
(* One decodeSelections call, a loop pass at a time.  `bytes` is the result  *)
(* of base64ToBytes (line 168) having returned.                              *)

DecodeByteVals == {3, 13, 255}

InitDecode ==
    /\ bytes \in Buffers(DecodeByteVals, MaxCodeBytes)
    /\ byteI = 0 /\ bitI = 0 /\ last = NoCall
    /\ model \in [fullNodeOrder : Orders(OrderIds, MaxNodes), index : {NodeIndex}]
    /\ opts \in OptsWithHeader(0..MaxHeader)
    /\ pc = "header" /\ hdrI = 0 /\ varint = [shift |-> 0, out |-> {}]
    /\ nodeI = 0 /\ byNodeId = EmptyMap /\ log = <<>>
    /\ IdleText /\ IdleMain

\* line 172: the next header field; readVarInt aligns, then starts its loop
HeaderVarIntBegin ==
    /\ pc = "header" /\ hdrI < opts.headerVarInts
    /\ LET a == alignToByte(byteI, bitI)
       IN byteI' = a.byteI /\ bitI' = a.bitI
    /\ varint' = [shift |-> 0, out |-> {}]
    /\ pc' = "varint"
    /\ UNCHANGED <<bytes, last, model, opts, hdrI, nodeI, byNodeId, log,
                   textVars, mainVars>>

\* the cursor is no further past the end than the header fields can take it
VarIntInRange == byteI < Len(bytes) + opts.headerVarInts + PastEnd

\* lines 138-143: one pass of the loop of readVarInt
VarIntStep ==
    /\ pc = "varint"
    /\ VarIntInRange
    /\ LET byte == ByteAt(bytes, byteI)
       IN /\ byteI' = byteI + 1
          /\ IF moreFollows(byte)
             THEN /\ varint' = [shift |-> varint.shift + 7,
                                 out |-> accumulate(varint.out, byte, varint.shift)]
                  /\ UNCHANGED <<pc, hdrI>>
             ELSE /\ varint' = [shift |-> varint.shift,
                                 out |-> accumulate(varint.out, byte, varint.shift)]
                  /\ hdrI' = hdrI + 1
                  /\ pc' = "header"
    /\ UNCHANGED <<bytes, bitI, last, model, opts, nodeI, byNodeId, log,
                   textVars, mainVars>>

\* lines 172-184: the header loop ends, the table is created
HeaderDone ==
    /\ pc = "header" /\ hdrI >= opts.headerVarInts
    /\ pc' = "nodes"
    /\ byNodeId' = EmptyMap
    /\ UNCHANGED <<bytes, byteI, bitI, last, model, opts, hdrI, varint, nodeI, log,
                   textVars, mainVars>>

\* lines 186-233: one entry of fullNodeOrder
DecodeNodeStep ==
    /\ pc = "nodes" /\ nodeI < Len(model.fullNodeOrder)
    /\ LET nodeId == model.fullNodeOrder[nodeI + 1]
           d == decodeNode(bytes, byteI, bitI, nodeId, model.index, opts)
       IN /\ byteI' = d.byteI
          /\ bitI' = d.bitI
          /\ byNodeId' = setIfPresent(byNodeId, nodeId, d)
          /\ log' = Append(log, [id |-> nodeId, from |-> Pos,
                                 to |-> 8 * d.byteI + d.bitI, taken |-> d.rec.taken])
    /\ nodeI' = nodeI + 1
    /\ UNCHANGED <<bytes, last, model, opts, pc, hdrI, varint, textVars, mainVars>>

\* line 237
DecodeReturn ==
    /\ pc = "nodes" /\ nodeI >= Len(model.fullNodeOrder)
    /\ pc' = "done"
    /\ UNCHANGED <<bytes, byteI, bitI, last, model, opts, hdrI, varint, nodeI,
                   byNodeId, log, textVars, mainVars>>

NextDecode ==
    HeaderVarIntBegin \/ VarIntStep \/ HeaderDone \/ DecodeNodeStep \/ DecodeReturn

SpecDecode == InitDecode /\ [][NextDecode]_vars

\* the call runs on its own, synchronously: a pass that can be taken is taken
FairSpecDecode == SpecDecode /\ WF_vars(NextDecode)

---------------------------------------------------------------------------
(* Properties of the selection table and of the decode call *)

\* C2: every record has ranksTaken = 0 when not taken and
\* 1 <= ranksTaken <= maxRanks when taken.
C2_RanksTakenMatchesTaken ==
    \A id \in DOMAIN byNodeId :
        LET r == byNodeId[id]
        IN /\ ~r.taken => r.ranksTaken = 0
           /\ r.taken => (1 <= r.ranksTaken /\ r.ranksTaken <= r.maxRanks)

\* C3: a record carries a chosen alternative only for a taken choice node, and
\* then one of that node's alternatives, 0 .. entries-1.
C3_ChosenAlternativeInRange ==
    \A id \in DOMAIN byNodeId :
        LET r == byNodeId[id]
        IN r.choiceEntryIndex # NoChoice =>
             /\ model.index[id].type = "choice"
             /\ r.taken
             /\ 0 <= r.choiceEntryIndex
             /\ r.choiceEntryIndex < model.index[id].entries

\* what does hold of the chosen alternative: it is the value of the choice field,
\* which is one or two bits wide
C3_ChosenAlternativeIsFieldValue ==
    \A id \in DOMAIN byNodeId :
        LET r == byNodeId[id]
        IN r.choiceEntryIndex # NoChoice =>
             /\ model.index[id].type = "choice"
             /\ r.taken
             /\ 0 <= r.choiceEntryIndex
             /\ r.choiceEntryIndex <
                  Pow2(choiceBits(opts.choiceMode, model.index[id].entries))

\* C4: the entries of fullNodeOrder are visited once each, in order; an entry that
\* is not in the index costs exactly its one taken bit and gets no record; each
\* entry is read where the previous one ended; the table's keys are the visited
\* entries that are in the index.
C4_OrderWalkedUnknownCostsOneBit ==
    (pc \in {"nodes", "done"}) =>
        /\ Len(log) = nodeI
        /\ \A k \in 1..nodeI :
             /\ log[k].id = model.fullNodeOrder[k]
             /\ k > 1 => log[k].from = log[k - 1].to
             /\ log[k].id \notin DOMAIN model.index => log[k].to = log[k].from + 1
        /\ nodeI > 0 => Pos = log[nodeI].to
        /\ DOMAIN byNodeId =
             {model.fullNodeOrder[k] : k \in 1..nodeI} \cap DOMAIN model.index
        /\ pc = "done" => nodeI = Len(model.fullNodeOrder)

\* a finished call whose order holds a taken unknown entry between two known ones
C4_Witness ==
    /\ pc = "done" /\ Len(log) = 3
    /\ log[2].id \notin DOMAIN model.index /\ log[2].taken
    /\ log[3].taken
    /\ Cardinality(DOMAIN byNodeId) = 2

\* the passes a call may still have to make: a natural number
\*   per header field left, its start and its last pass;
\*   per buffer byte not yet consumed, a pass of readVarInt that continues;
\*   per entry of fullNodeOrder left, its pass; and the steps between the loops
Remaining ==
    2 * (opts.headerVarInts - hdrI)
    + (IF pc = "header" THEN 1 ELSE 0)
    + bytesLeft(bytes, byteI)
    + (Len(model.fullNodeOrder) - nodeI)
    + (IF pc \in {"header", "varint"} THEN 2 ELSE IF pc = "nodes" THEN 1 ELSE 0)

\* C7: every decodeSelections call returns, whatever the buffer, the schema and the
\* options: a call that has not returned can always make its next pass, and every
\* pass lowers the number of passes that remain, which is never negative.
C7_DecodeAlwaysReturns ==
    /\ [](pc \in {"header", "nodes", "done"} \/ (pc = "varint" /\ VarIntInRange))
    /\ [](Remaining >= 0)
    /\ [][Remaining' < Remaining]_vars

\* the same as a property of the fair behaviours: the return is reached
C7_DecodeReturnsEventually == <>(pc = "done")

\* a call that returned after reading its header fields and its nodes from an
\* empty buffer
C7_Witness ==
    /\ pc = "done" /\ bytes = <<>> /\ opts.headerVarInts >= 1
    /\ Len(model.fullNodeOrder) >= 1
    /\ byteI > Len(bytes)

---------------------------------------------------------------------------
(* Text to bytes: base64ToBytes, app.js lines 91-100.  A text is a sequence  *)
(* of one-character strings.                                                 *)

ALPHABET ==
    << "A", "B", "C", "D", "E", "F", "G", "H", "I", "J", "K", "L", "M",
       "N", "O", "P", "Q", "R", "S", "T", "U", "V", "W", "X", "Y", "Z",
       "a", "b", "c", "d", "e", "f", "g", "h", "i", "j", "k", "l", "m",
       "n", "o", "p", "q", "r", "s", "t", "u", "v", "w", "x", "y", "z",
       "0", "1", "2", "3", "4", "5", "6", "7", "8", "9", "+", "/" >>

\* ALPHABET.indexOf(ch): -1 when ch is not a symbol
Positions ==
    [ch \in {ALPHABET[i] : i \in 1..Len(ALPHABET)} |->
        (CHOOSE i \in 1..Len(ALPHABET) : ALPHABET[i] = ch) - 1]

indexOf(ch) == IF ch \in DOMAIN Positions THEN Positions[ch] ELSE 0 - 1

\* the white space String.prototype.trim and atob strip
Whitespace == {" ", "\t", "\n", "\r"}

RECURSIVE trimStart(_)
trimStart(t) ==
    IF t # <<>> /\ Head(t) \in Whitespace THEN trimStart(Tail(t)) ELSE t

RECURSIVE trimEnd(_)
trimEnd(t) ==
    IF t # <<>> /\ t[Len(t)] \in Whitespace
    THEN trimEnd(SubSeq(t, 1, Len(t) - 1)) ELSE t

trim(t) == trimEnd(trimStart(t))

repeat(ch, n) == [i \in 1..n |-> ch]

IsSymbol(ch) == indexOf(ch) >= 0

\* the six bits of a symbol, most significant first, as base64 packs them
RECURSIVE symbolBits(_)
symbolBits(t) ==
    IF t = <<>> THEN <<>>
    ELSE WithValue(indexOf(Head(t)), LAMBDA idx : [b \in 1..6 |-> BitOf(idx, 6 - b)])
         \o symbolBits(Tail(t))

\* every full group of eight bits is a byte; what is left over is dropped
packBytes(bitSeq) ==
    WithValue(bitSeq, LAMBDA bits :
        [k \in 1..(Len(bits) \div 8) |->
            BitsToNat({7 - j : j \in {i \in 0..7 : bits[8 * (k - 1) + i + 1] = 1}})])

\* atob: the forgiving base64 decode of the platform.  White space anywhere in the
\* data is removed first; one or two trailing "=" are removed when the length is a
\* multiple of 4; a length of 4k+1 or any character that is not a symbol fails.
atob(data) ==
    LET unpad(stripped, n) ==
            IF n % 4 = 0 /\ n >= 2 /\ stripped[n] = "=" /\ stripped[n - 1] = "="
            THEN SubSeq(stripped, 1, n - 2)
            ELSE IF n % 4 = 0 /\ n >= 1 /\ stripped[n] = "="
            THEN SubSeq(stripped, 1, n - 1)
            ELSE stripped
        unpack(body) ==
            IF Len(body) % 4 = 1 \/ \E i \in 1..Len(body) : ~IsSymbol(body[i])
            THEN [raised |-> TRUE, bytes |-> <<>>]
            ELSE [raised |-> FALSE, bytes |-> packBytes(symbolBits(body))]
    IN WithValue(SelectSeq(data, LAMBDA ch : ch \notin Whitespace),
                 LAMBDA stripped :
                     WithValue(unpad(stripped, Len(stripped)), LAMBDA body : unpack(body)))

\* lines 91-100: trim, pad with "=" to a multiple of four, atob
base64ToBytes(b64) ==
    WithValue(trim(b64),
              LAMBDA clean : atob(clean \o repeat("=", (4 - (Len(clean) % 4)) % 4)))

---------------------------------------------------------------------------
(* decodeSelections of app.js as one call *)

RECURSIVE skipHeader(_, _, _, _)
skipHeader(bs, bI, tI, i) ==
    IF i <= 0 THEN [byteI |-> bI, bitI |-> tI]
    ELSE WithValue(readVarInt(bs, bI, tI),
                   LAMBDA r : skipHeader(bs, r.byteI, r.bitI, i - 1))

RECURSIVE walkOrder(_, _, _, _, _, _, _, _)
walkOrder(bs, bI, tI, order, k, index, o, table) ==
    IF k > Len(order) THEN table
    ELSE WithValue(decodeNode(bs, bI, tI, order[k], index, o),
                   LAMBDA d : WithValue(setIfPresent(table, order[k], d),
                       LAMBDA t : walkOrder(bs, d.byteI, d.bitI, order, k + 1,
                                            index, o, t)))

\* lines 169-237: from the byte buffer to the table
decodeBytes(bs, mdl, o) ==
    WithValue(skipHeader(bs, 0, 0, o.headerVarInts),
              LAMBDA h : walkOrder(bs, h.byteI, h.bitI, mdl.fullNodeOrder, 1,
                                   mdl.index, o, EmptyMap))

\* line 168 has no handler around base64ToBytes: what it raises leaves the call
decodeSelections(text, mdl, o) ==
    WithValue(base64ToBytes(text),
              LAMBDA b : IF b.raised THEN [raised |-> TRUE, table |-> EmptyMap]
                         ELSE [raised |-> FALSE, table |-> decodeBytes(b.bytes, mdl, o)])

---------------------------------------------------------------------------
(* The earlier decoder, part_000 lines 107-201 *)

\* decodeToBits: six bits per symbol, least significant first; a character that is
\* not a symbol is passed over (line 111)
RECURSIVE symbolBitsLsb(_)
symbolBitsLsb(t) ==
    IF t = <<>> THEN <<>>
    ELSE IF indexOf(Head(t)) < 0 THEN symbolBitsLsb(Tail(t))
    ELSE [b \in 1..6 |-> BitOf(indexOf(Head(t)), b - 1)] \o symbolBitsLsb(Tail(t))

decodeToBits(text) == symbolBitsLsb(trim(text))

\* BitReader.read(n), from bit index i on
RECURSIVE bitReaderRead(_, _, _, _, _)
bitReaderRead(bits, i, n, b, v) ==
    IF b >= n THEN [v |-> v, i |-> i]
    ELSE bitReaderRead(bits, i + 1, n, b + 1,
                       v + (IF i < Len(bits) THEN bits[i + 1] ELSE 0) * Pow2(b))

read(bits, i, n) == bitReaderRead(bits, i, n, 0, 0)

\* BitReader.readVarInt: eight bits at a time from wherever the reader stands
RECURSIVE bitReaderVarInt(_, _, _, _)
bitReaderVarInt(bits, i, shift, out) ==
    LET chunk == read(bits, i, 8)
        out2 == out \cup Shl32(BitsOf(chunk.v % 128, 7), shift)
    IN IF (chunk.v \div 128) % 2 # 0
       THEN bitReaderVarInt(bits, chunk.i, shift + 7, out2)
       ELSE [out |-> out2, i |-> chunk.i]

RECURSIVE skipFields(_, _, _)
skipFields(bits, i, n) ==
    IF n <= 0 THEN i
    ELSE WithValue(bitReaderVarInt(bits, i, 0, {}),
                   LAMBDA r : skipFields(bits, r.i, n - 1))

ceiling(v, maxRanks) == IF v > maxRanks THEN maxRanks ELSE v

\* part_000 lines 168-198 for one entry
decodeNodeEarlier(bits, i, nodeId, index) ==
    LET present == nodeId \in DOMAIN index
        maxRanks == IF present THEN index[nodeId].maxRanks ELSE 1
        nodeType == IF present THEN index[nodeId].type ELSE "single"
        t == read(bits, i, 1)
        result(r, ranks, choice) ==
            [i |-> r.i, present |-> present,
             rec |-> [taken |-> t.v = 1, ranksTaken |-> ranks, maxRanks |-> maxRanks,
                      choiceEntryIndex |-> choice]]
    IN IF t.v # 1 THEN result(t, 0, NoChoice)
       ELSE IF nodeType = "choice"
       THEN LET c == read(bits, t.i, 2) IN result(c, 1, c.v)
       ELSE IF nodeType = "tiered"
       THEN LET r == read(bits, t.i, 3) IN result(r, ceiling(r.v, maxRanks), NoChoice)
       ELSE LET bn == bitsNeededForMaxRanks(maxRanks)
            IN IF bn # 0
               THEN LET r == read(bits, t.i, bn)
                    IN result(r, ceiling(r.v + 1, maxRanks), NoChoice)
               ELSE result(t, ceiling(1, maxRanks), NoChoice)

RECURSIVE walkOrderEarlier(_, _, _, _, _, _)
walkOrderEarlier(bits, i, order, k, index, table) ==
    IF k > Len(order) THEN table
    ELSE WithValue(decodeNodeEarlier(bits, i, order[k], index),
                   LAMBDA d : WithValue(setIfPresent(table, order[k], d),
                       LAMBDA t : walkOrderEarlier(bits, d.i, order, k + 1, index, t)))

\* the header fields h1..h4 of part_000 lines 156-159
EarlierHeaderFields == 4

\* part_000 lines 151-201: never raises
decodeSelectionsEarlier(text, mdl) ==
    WithValue(decodeToBits(text),
              LAMBDA bits :
                  [raised |-> FALSE,
                   table |-> WithValue(skipFields(bits, 0, EarlierHeaderFields),
                                 LAMBDA i : walkOrderEarlier(bits, i, mdl.fullNodeOrder,
                                                             1, mdl.index, EmptyMap))])

---------------------------------------------------------------------------
(* Whole calls on a text: the byte decoder, decodeSelections of app.js and   *)
(* decodeSelections of part_000, each on the same text and schema.           *)

MaxText == 4        \* longest text drawn exhaustively
MaxCallNodes == 2   \* longest fullNodeOrder of a whole-call schema

TextChars == {"A", "/", " ", "!"}

\* texts long enough to reach the nodes behind the four header fields of part_000
LongTexts ==
    { <<"A", "A", "A", "A", "A", "E">>,
      <<"A", "!", "A", "A", "A", "A", "E">>,
      <<"A", "A", "A", "A", "A", "8", "/">> }

Texts(n) == UNION {[1..k -> TextChars] : k \in 0..n}

CallOrderIds == {11, 12, 14, 15}

\* lines 526-531: the default decoder params of main
DefaultOpts ==
    [headerVarInts |-> 0, choiceMode |-> "byEntryCount", choiceExtraBit |-> FALSE,
     rankMode |-> "plus1"]

CallOpts ==
    {DefaultOpts,
     [headerVarInts |-> 0, choiceMode |-> "fixed2", choiceExtraBit |-> TRUE,
      rankMode |-> "tiered3"]}

InitCalls ==
    /\ code \in Texts(MaxText) \cup LongTexts
    /\ decoded = NoDecode
    /\ model \in [fullNodeOrder : Orders(CallOrderIds, MaxCallNodes), index : {NodeIndex}]
    /\ opts \in CallOpts
    /\ byNodeId = EmptyMap
    /\ pc = "idle" /\ hdrI = 0 /\ varint = Null /\ nodeI = 0 /\ log = <<>>
    /\ IdleReader /\ IdleMain

\* base64ToBytes(code)
Base64ToBytesCall ==
    /\ decoded.by = "none"
    /\ LET b == base64ToBytes(code)
       IN decoded' = [by |-> "base64ToBytes", raised |-> b.raised, bytes |-> b.bytes]
    /\ UNCHANGED <<code, readerVars, decodeVars, mainVars>>

\* decodeSelections({code, model, opts}) of app.js
DecodeSelectionsCall ==
    /\ decoded.by = "none"
    /\ LET r == decodeSelections(code, model, opts)
       IN /\ decoded' = [by |-> "decodeSelections", raised |-> r.raised,
                         bytes |-> base64ToBytes(code).bytes]
          /\ byNodeId' = r.table
    /\ pc' = IF decodeSelections(code, model, opts).raised THEN "raised" ELSE "done"
    /\ UNCHANGED <<code, readerVars, model, opts, hdrI, varint, nodeI, log, mainVars>>

\* decodeSelections({code, model}) of part_000
EarlierDecodeSelectionsCall ==
    /\ decoded.by = "none"
    /\ LET r == decodeSelectionsEarlier(code, model)
       IN /\ decoded' = [by |-> "decodeSelectionsEarlier", raised |-> r.raised,
                         bytes |-> <<>>]
          /\ byNodeId' = r.table
    /\ pc' = "done"
    /\ UNCHANGED <<code, readerVars, model, opts, hdrI, varint, nodeI, log, mainVars>>

NextCalls == Base64ToBytesCall \/ DecodeSelectionsCall \/ EarlierDecodeSelectionsCall

SpecCalls == InitCalls /\ [][NextCalls]_vars

\* a character of the trimmed text that is neither a symbol nor padding
HasForeignCharacter(text) ==
    \E i \in 1..Len(trim(text)) : ~IsSymbol(trim(text)[i]) /\ trim(text)[i] # "="

\* C1: decoding a text that holds a character outside the alphabet raises; no such
\* text is decoded from its remaining characters.
C1_ForeignCharacterRaises ==
    (decoded.by # "none" /\ HasForeignCharacter(code)) => decoded.raised

\* what does hold of app.js: a foreign character that is not white space raises
C1_AppRaisesUnlessWhitespace ==
    (/\ decoded.by \in {"base64ToBytes", "decodeSelections"}
     /\ \E i \in 1..Len(code) : ~IsSymbol(code[i]) /\ code[i] \notin Whitespace \cup {"="})
        => decoded.raised

---------------------------------------------------------------------------
(* scoreDecode and calibrateDecoder, app.js lines 261-326 *)

\* selections.get(id)?.taken
takenIn(sel, id) == id \in DOMAIN sel /\ sel[id].taken

\* lines 276: how many of an entry's nodes are taken
countTaken(nodes, sel) == Cardinality({i \in 1..Len(nodes) : takenIn(sel, nodes[i])})

\* the entry with the most taken nodes, the last one on a tie
RECURSIVE pickBestLast(_, _, _, _)
pickBestLast(entries, k, bestSoFar, sel) ==
    IF k > Len(entries) THEN bestSoFar
    ELSE LET cnt == countTaken(entries[k].nodes, sel)
         IN pickBestLast(entries, k + 1,
                         IF cnt >= bestSoFar.taken
                         THEN [nodes |-> entries[k].nodes, taken |-> cnt]
                         ELSE bestSoFar,
                         sel)

\* lines 272-278: the entry with the most taken nodes, the first one on a tie
RECURSIVE pickBest(_, _, _, _)
pickBest(entries, k, bestSoFar, sel) ==
    IF k > Len(entries) THEN bestSoFar
    ELSE LET cnt == countTaken(entries[k].nodes, sel)
         IN pickBest(entries, k + 1,
                     IF cnt > bestSoFar.taken
                     THEN [nodes |-> entries[k].nodes, taken |-> cnt]
                     ELSE bestSoFar,
                     sel)

\* lines 269-289: +10 or -10; reading e.nodes of an entry that is null raises
heroBonus(mdl, sel) ==
    LET entries == mdl.subTree
        b == pickBest(entries, 1, [nodes |-> <<>>, taken |-> 0 - 1], sel)
    IN IF \A i \in 1..Len(b.nodes) : takenIn(sel, b.nodes[i]) THEN 10 ELSE 0 - 10

scoreDecode(mdl, sel, cal) ==
    LET hits == {id \in cal.expectedTaken : takenIn(sel, id)}
        base == 2 * Cardinality(hits) - 2 * Cardinality(cal.expectedTaken \ hits)
    IN IF cal.expectedHeroAll /\ Len(mdl.subTree) > 0
       THEN IF \E k \in 1..Len(mdl.subTree) : mdl.subTree[k].isNull
            THEN [raised |-> TRUE, score |-> 0]
            ELSE [raised |-> FALSE, score |-> base + heroBonus(mdl, sel)]
       ELSE [raised |-> FALSE, score |-> base]

\* line 297: headerRange has 41 elements, 0..40
HeaderRangeLength == 41

\* lines 302-305: the nested loops, headerVarInts outermost, rankMode innermost
ConfigCount ==
    HeaderRangeLength * Len(ChoiceModes) * Len(ChoiceExtraBits) * Len(RankModes)

ConfigAt(n) ==
    LET m == n - 1
    IN [headerVarInts |-> m \div (Len(ChoiceModes) * Len(ChoiceExtraBits) * Len(RankModes)),
        choiceMode |-> ChoiceModes[((m \div (Len(ChoiceExtraBits) * Len(RankModes)))
                                    % Len(ChoiceModes)) + 1],
        choiceExtraBit |-> ChoiceExtraBits[((m \div Len(RankModes))
                                            % Len(ChoiceExtraBits)) + 1],
        rankMode |-> RankModes[(m % Len(RankModes)) + 1]]

\* lines 306-318: one pass of the innermost loop body
evaluate(cfg, mdl, cal) ==
    LET d == decodeSelections(cal.code, mdl, cfg)
    IN IF d.raised THEN [raised |-> TRUE, score |-> 0]
       ELSE scoreDecode(mdl, d.table, cal)

candidate(cfg, score) ==
    [headerVarInts |-> cfg.headerVarInts, choiceMode |-> cfg.choiceMode,
     choiceExtraBit |-> cfg.choiceExtraBit, rankMode |-> cfg.rankMode,
     score |-> score]

\* the candidates array before it is sorted: what raised is not pushed
pushAll(mdl, cal) ==
    LET pass(n) == WithValue(evaluate(ConfigAt(n), mdl, cal),
                       LAMBDA e : [raised |-> e.raised,
                                   c |-> candidate(ConfigAt(n), e.score)])
    IN WithValue(SelectSeq([n \in 1..ConfigCount |-> pass(n)], LAMBDA p : ~p.raised),
                 LAMBDA kept : [i \in 1..Len(kept) |-> kept[i].c])

Max(S) == CHOOSE x \in S : \A y \in S : y <= x
Min(S) == CHOOSE x \in S : \A y \in S : x <= y

\* line 324: candidates.sort((a, b) => b.score - a.score).  Array.prototype.sort
\* is stable: equal scores keep the order in which they were pushed.
RECURSIVE sortAscendingByScore(_, _)
sortAscendingByScore(cands, scores) ==
    IF scores = {} THEN <<>>
    ELSE LET m == Min(scores)
         IN SelectSeq(cands, LAMBDA c : c.score = m)
            \o sortAscendingByScore(cands, scores \ {m})

RECURSIVE sortDescendingByScore(_, _)
sortDescendingByScore(cands, scores) ==
    IF scores = {} THEN <<>>
    ELSE LET m == Max(scores)
         IN SelectSeq(cands, LAMBDA c : c.score = m)
            \o sortDescendingByScore(cands, scores \ {m})

sortWrongWay(cands) ==
    WithValue(cands, LAMBDA a : sortAscendingByScore(a, {a[i].score : i \in 1..Len(a)}))

sortCandidates(cands) ==
    WithValue(cands, LAMBDA a : sortDescendingByScore(a, {a[i].score : i \in 1..Len(a)}))

\* candidates[0] || null
NoBest == [found |-> FALSE, c |-> candidate(DefaultOpts, 0)]

\* the last element taken where the first is meant
lastOrNull(sorted) ==
    IF sorted = <<>> THEN NoBest ELSE [found |-> TRUE, c |-> sorted[Len(sorted)]]

firstOrNull(sorted) ==
    IF sorted = <<>> THEN NoBest ELSE [found |-> TRUE, c |-> sorted[1]]

optsOf(c) ==
    [headerVarInts |-> c.headerVarInts, choiceMode |-> c.choiceMode,
     choiceExtraBit |-> c.choiceExtraBit, rankMode |-> c.rankMode]

---------------------------------------------------------------------------
(* main, app.js lines 505-559, from the loaded model on *)

MaxMainNodes == 2   \* longest fullNodeOrder of a schema given to main

MainOrderIds == {11, 12}

Entry(nodes) == [isNull |-> FALSE, nodes |-> nodes]
NullEntry == [isNull |-> TRUE, nodes |-> <<>>]

\* subTreeNodes[0].entries: absent, two hero tracks, or holding a null
SubTrees == { <<>>, <<Entry(<<11>>), Entry(<<12>>)>>, <<NullEntry>> }

\* the reference code decodes to the bytes [3, 255]
CalibrationCodes == { <<"A", "/", "/">> }
ExpectedSets == { {11}, {11, 12} }

\* q.code, already trimmed by getQuery: none, one that decodes to [255], a bad one
QueryCodes == { <<>>, <<"/", "w">>, <<"!">> }

InitMain ==
    /\ q \in [cal : BOOLEAN, code : QueryCodes]
    /\ model \in [fullNodeOrder : Orders(MainOrderIds, MaxMainNodes),
                  index : {NodeIndex}, subTree : SubTrees]
    /\ calibration \in [code : CalibrationCodes, expectedTaken : ExpectedSets,
                        expectedHeroAll : BOOLEAN]
    /\ mainPc = "start"
    /\ best = NoBest
    /\ candidates = <<>>
    /\ scored = NoScore
    /\ decoderOpts = DefaultOpts
    /\ selections = EmptyMap
    /\ IdleText /\ IdleReader
    /\ opts = Null /\ pc = "idle" /\ hdrI = 0 /\ varint = Null
    /\ nodeI = 0 /\ byNodeId = EmptyMap /\ log = <<>>

\* lines 533-537 with cal=1: calibrateDecoder, then `if (best) decoderOpts = best`
MainCalibrate ==
    /\ mainPc = "start" /\ q.cal
    /\ \E pushed \in {pushAll(model, calibration)} :
          \E found \in {firstOrNull(sortCandidates(pushed))} :
             /\ candidates' = pushed
             /\ best' = found
             /\ decoderOpts' = IF found.found THEN optsOf(found.c) ELSE decoderOpts
    /\ mainPc' = "decode"
    /\ UNCHANGED <<q, selections, calibration, scored, model, opts, pc, hdrI, varint, nodeI,
                   byNodeId, log, textVars, readerVars>>

\* line 533 without cal=1
MainKeepDefaults ==
    /\ mainPc = "start" /\ ~q.cal
    /\ mainPc' = "decode"
    /\ UNCHANGED <<q, best, candidates, decoderOpts, selections, calibration, scored,
                   decodeVars, textVars, readerVars>>

\* lines 541-544; what decodeSelections raises reaches the catch of line 557
MainDecode ==
    /\ mainPc = "decode"
    /\ IF q.code # <<>>
       THEN LET r == decodeSelections(q.code, model, decoderOpts)
            IN IF r.raised
               THEN mainPc' = "crashed" /\ UNCHANGED selections
               ELSE mainPc' = "render" /\ selections' = r.table
       ELSE mainPc' = "render" /\ UNCHANGED selections
    /\ UNCHANGED <<q, best, candidates, decoderOpts, calibration, scored,
                   decodeVars, textVars, readerVars>>

\* lines 555-556
MainRender ==
    /\ mainPc = "render"
    /\ mainPc' = "rendered"
    /\ UNCHANGED <<q, best, candidates, decoderOpts, selections, calibration, scored,
                   decodeVars, textVars, readerVars>>

NextMain == MainCalibrate \/ MainKeepDefaults \/ MainDecode \/ MainRender

SpecMain == InitMain /\ [][NextMain]_vars

---------------------------------------------------------------------------
(* Properties of the calibration search and of what main does with it *)

\* calibrateDecoder has returned and main has not yet decoded
Calibrated == q.cal /\ mainPc = "decode"

IndexIn(seq, x) == CHOOSE i \in 1..Len(seq) : seq[i] = x

\* the place of a configuration in the nested-loop order: headerVarInts outermost,
\* then choiceMode, then choiceExtraBit, rankMode innermost
EnumerationRank(c) ==
    ((c.headerVarInts * Len(ChoiceModes) + (IndexIn(ChoiceModes, c.choiceMode) - 1))
        * Len(ChoiceExtraBits) + (IndexIn(ChoiceExtraBits, c.choiceExtraBit) - 1))
        * Len(RankModes) + IndexIn(RankModes, c.rankMode)

\* the ranking holds, in enumeration order, exactly the configurations that did
\* not raise, each with the score of its decode
RankingIsWhatDidNotRaise ==
    \E evals \in {[n \in 1..ConfigCount |-> evaluate(ConfigAt(n), model, calibration)]} :
        /\ Len(candidates) = Cardinality({n \in 1..ConfigCount : ~evals[n].raised})
        /\ \A i \in 1..Len(candidates) :
              \E n \in {EnumerationRank(candidates[i])} :
                 /\ n \in 1..ConfigCount
                 /\ optsOf(candidates[i]) = ConfigAt(n)
                 /\ ~evals[n].raised
                 /\ evals[n].score = candidates[i].score
        /\ \A i \in 1..(Len(candidates) - 1) :
              EnumerationRank(candidates[i]) < EnumerationRank(candidates[i + 1])

\* C8: calibrateDecoder returns a configuration whose score is the maximum over
\* the configurations evaluated without raising; among those that share the
\* maximum it returns the one enumerated first; a configuration whose decode
\* raised is not in the ranking; it returns null exactly when the ranking is empty.
C8_ReturnsFirstOfMaximum ==
    Calibrated =>
        /\ RankingIsWhatDidNotRaise
        /\ best.found <=> candidates # <<>>
        /\ best.found =>
              \E k \in 1..Len(candidates) :
                 /\ best.c = candidates[k]
                 /\ \A i \in 1..Len(candidates) :
                       candidates[i].score <= candidates[k].score
                 /\ \A i \in 1..(k - 1) : candidates[i].score < candidates[k].score
        /\ decoderOpts = IF best.found THEN optsOf(best.c) ELSE DefaultOpts

\* the returned configuration shares the maximum with a later one and is enumerated
\* after one that scores less
C8_Witness ==
    /\ Calibrated /\ best.found
    /\ \E k \in 2..(Len(candidates) - 1) :
          /\ best.c = candidates[k]
          /\ candidates[1].score < candidates[k].score
          /\ \E j \in (k + 1)..Len(candidates) : candidates[j].score = candidates[k].score

\* the score of the all-defaults configuration of lines 526-531
DefaultScore ==
    candidates[CHOOSE i \in 1..Len(candidates) : optsOf(candidates[i]) = DefaultOpts].score

\* C9 as stated: the search yields a configuration that scores strictly more than
\* the all-defaults configuration, unless the all-defaults configuration is the
\* one and only configuration with the maximum score.
C9_BeatsDefaultsUnlessUniqueMaximum ==
    (Calibrated /\ best.found) =>
        \E d \in {DefaultScore} :
           \/ best.c.score > d
           \/ \A i \in 1..Len(candidates) :
                 optsOf(candidates[i]) # DefaultOpts => candidates[i].score < d

\* C9: the search yields a configuration that scores at least as much as the
\* all-defaults configuration, and one that scores the same only when it is the
\* all-defaults configuration itself.
C9_BeatsDefaultsOrIsDefaults ==
    (Calibrated /\ best.found) =>
        \E d \in {DefaultScore} :
           /\ best.c.score >= d
           /\ best.c.score = d => optsOf(best.c) = DefaultOpts

\* the search returned a configuration that scores strictly more than the defaults
C9_Witness ==
    /\ Calibrated /\ best.found
    /\ best.c.score > DefaultScore
    /\ optsOf(best.c) # DefaultOpts

\* C10: when cal=1 is given and the search ranks no candidate, the failure is
\* surfaced and no decode of q.code is performed with the default configuration.
C10_FailedCalibrationStopsDecode ==
    (q.cal /\ q.code # <<>> /\ mainPc \in {"render", "rendered", "crashed"}) => best.found

\* C11: when byte decoding of the user's code raises, main still reaches the render
\* step, with an empty selection table; rendering is never skipped.
C11_FailedDecodeStillRenders ==
    (/\ mainPc \notin {"start", "decode"}
     /\ q.code # <<>>
     /\ base64ToBytes(q.code).raised)
        => (mainPc \in {"render", "rendered"} /\ selections = EmptyMap)

---------------------------------------------------------------------------
(* scoreDecode called on its own: every selection table over a few node ids, *)
(* every expected set over them, several shapes of subTreeNodes[0].entries.  *)

MaxScoreNodes == 3   \* how many node ids the tables and the expected sets range over

ScoreIds == {10 + i : i \in 1..MaxScoreNodes}

\* a record as decodeSelections writes it; scoreDecode reads its taken field only
Record(taken) ==
    [taken |-> taken, ranksTaken |-> IF taken THEN 1 ELSE 0, maxRanks |-> 1,
     choiceEntryIndex |-> NoChoice]

\* every table: a record, taken or not, for some of the ids and none for the others
Tables(ids) == UNION {[D -> {Record(TRUE), Record(FALSE)}] : D \in SUBSET ids}

\* subTreeNodes[0].entries: absent, two tracks in either order, overlapping tracks,
\* a track without nodes, or an array that holds a null
ScoreSubTrees ==
    { <<>>,
      <<Entry(<<11>>), Entry(<<12, 13>>)>>,
      <<Entry(<<12, 13>>), Entry(<<11>>)>>,
      <<Entry(<<11, 12>>), Entry(<<12, 13>>)>>,
      <<Entry(<<11>>), Entry(<<>>)>>,
      <<Entry(<<>>)>>,
      <<Entry(<<11>>), NullEntry>> }

InitScore ==
    /\ model \in [fullNodeOrder : {<<>>}, index : {NodeIndex}, subTree : ScoreSubTrees]
    /\ calibration \in [code : {<<>>}, expectedTaken : SUBSET ScoreIds,
                        expectedHeroAll : BOOLEAN]
    /\ selections \in Tables(ScoreIds)
    /\ scored = NoScore
    /\ q = Null /\ mainPc = "idle" /\ best = Null /\ decoderOpts = Null
    /\ candidates = <<>>
    /\ IdleText /\ IdleReader
    /\ opts = Null /\ pc = "idle" /\ hdrI = 0 /\ varint = Null
    /\ nodeI = 0 /\ byNodeId = EmptyMap /\ log = <<>>

\* scoreDecode(model, selections), lines 261-292
ScoreDecodeCall ==
    /\ ~scored.called
    /\ \E r \in {scoreDecode(model, selections, calibration)} :
          scored' = [called |-> TRUE, raised |-> r.raised, score |-> r.score]
    /\ UNCHANGED <<q, mainPc, best, decoderOpts, selections, calibration, candidates,
                   decodeVars, textVars, readerVars>>

NextScore == ScoreDecodeCall

SpecScore == InitScore /\ [][NextScore]_vars

\* the table marks the node taken; a node with no record counts as not taken
Marked(id) == id \in DOMAIN selections /\ selections[id].taken

\* +2 per expected id the table marks taken, -2 per expected id it does not
RECURSIVE ExpectedSum(_)
ExpectedSum(S) ==
    IF S = {} THEN 0
    ELSE LET id == CHOOSE x \in S : TRUE
         IN (IF Marked(id) THEN 2 ELSE 0 - 2) + ExpectedSum(S \ {id})

TakenMembers(k) ==
    Cardinality({i \in 1..Len(model.subTree[k].nodes) : Marked(model.subTree[k].nodes[i])})

\* the alternative with the highest count of taken members, the first such one
BestAlternative ==
    CHOOSE k \in 1..Len(model.subTree) :
        /\ \A j \in 1..Len(model.subTree) : TakenMembers(j) <= TakenMembers(k)
        /\ \A j \in 1..(k - 1) : TakenMembers(j) < TakenMembers(k)

TrackBonus ==
    IF \A i \in 1..Len(model.subTree[BestAlternative].nodes) :
           Marked(model.subTree[BestAlternative].nodes[i])
    THEN 10 ELSE 0 - 10

\* the designated choice-group is there: it has an alternative, and none is null
HasAlternatives ==
    /\ Len(model.subTree) > 0
    /\ \A k \in 1..Len(model.subTree) : ~model.subTree[k].isNull

\* C12: scoreDecode returns the sum over the expected ids of +2 when the table
\* marks the id taken and -2 otherwise (no record counts as not taken), plus, when
\* expectedHeroAll is set, +10 if every member of the alternative with the most
\* taken members (the first one on a tie) is taken and -10 otherwise.
C12_ScoreIsSumPlusTrackBonus ==
    scored.called =>
        /\ ~calibration.expectedHeroAll =>
              /\ ~scored.raised
              /\ scored.score = ExpectedSum(calibration.expectedTaken)
        /\ (calibration.expectedHeroAll /\ HasAlternatives) =>
              /\ ~scored.raised
              /\ scored.score = ExpectedSum(calibration.expectedTaken) + TrackBonus

\* what the code does outside that case: without any alternative nothing is added
\* or subtracted, and an alternative that is null makes the call raise
C12_NoAlternativeNoBonus ==
    (scored.called /\ calibration.expectedHeroAll /\ ~HasAlternatives) =>
        IF Len(model.subTree) = 0
        THEN ~scored.raised /\ scored.score = ExpectedSum(calibration.expectedTaken)
        ELSE scored.raised

\* two alternatives tie on the count, the first is fully taken and the second is
\* not, one expected id is marked taken and one has no record
C12_Witness ==
    /\ scored.called /\ calibration.expectedHeroAll
    /\ model.subTree = <<Entry(<<11>>), Entry(<<12, 13>>)>>
    /\ Marked(11) /\ Marked(12) /\ 13 \notin DOMAIN selections
    /\ calibration.expectedTaken = {11, 13}
    /\ scored.score = 10

---------------------------------------------------------------------------
(* decodeSelections, step by step as above, on schemas of two nodes that     *)
(* range over every rank width and every number of alternatives.             *)

WidthByteVals == {13, 254, 255}

\* Single nodes on both sides of every boundary of bitsNeededForMaxRanks, Choice
\* nodes with two and with three alternatives
NodeShapes ==
    {[type |-> "single", maxRanks |-> m, entries |-> 1] : m \in {1, 2, 3, 4, 5, 8, 9}}
    \cup {[type |-> "choice", maxRanks |-> 1, entries |-> e] : e \in {2, 3}}

InitWidths ==
    /\ bytes \in Buffers(WidthByteVals, MaxCodeBytes)
    /\ byteI = 0 /\ bitI = 0 /\ last = NoCall
    /\ model \in [fullNodeOrder : {<<20, 21>>}, index : [{20, 21} -> NodeShapes]]
    /\ opts \in OptsWithHeader(0..MaxHeader)
    /\ pc = "header" /\ hdrI = 0 /\ varint = [shift |-> 0, out |-> {}]
    /\ nodeI = 0 /\ byNodeId = EmptyMap /\ log = <<>>
    /\ IdleText /\ IdleMain

SpecWidths == InitWidths /\ [][NextDecode]_vars

\* width(maxRanks) of the claim
RankWidth(maxRanks) ==
    IF maxRanks <= 2 THEN 1 ELSE IF maxRanks <= 4 THEN 2
    ELSE IF maxRanks <= 8 THEN 3 ELSE 4

ChoiceWidth(node) ==
    IF opts.choiceMode = "fixed1" THEN 1
    ELSE IF opts.choiceMode = "fixed2" THEN 2
    ELSE IF node.entries <= 2 THEN 1 ELSE 2

ClaimedBits(node, taken) ==
    IF ~taken THEN 1
    ELSE IF node.type = "choice"
    THEN 1 + ChoiceWidth(node) + (IF opts.choiceExtraBit THEN 1 ELSE 0)
    ELSE 1 + (IF node.maxRanks = 1 THEN 0
              ELSE IF opts.rankMode = "tiered3" THEN 3
              ELSE RankWidth(node.maxRanks))

\* C13: the bits consumed for one indexed node are 1 when it is not taken; for a
\* taken Choice node 1 + w + t, w from the choice policy and t = 1 iff the trailing
\* bit is configured; for a taken Single node 1 + r, r = 0 when maxRanks = 1, else
\* 3 under tiered3 and width(maxRanks) under plus1 and raw.
C13_BitsConsumedPerNode ==
    \A k \in 1..Len(log) :
        log[k].id \in DOMAIN model.index =>
            log[k].to - log[k].from = ClaimedBits(model.index[log[k].id], log[k].taken)

\* a taken Choice node with three alternatives and a trailing bit (4 bits), then a
\* taken Single node of nine ranks read from the middle of the byte to past its end
C13_Witness ==
    /\ pc = "done" /\ Len(log) = 2 /\ bytes = <<255>>
    /\ opts.choiceMode = "byEntryCount" /\ opts.choiceExtraBit /\ opts.rankMode = "plus1"
    /\ model.index[20] = [type |-> "choice", maxRanks |-> 1, entries |-> 3]
    /\ model.index[21] = [type |-> "single", maxRanks |-> 9, entries |-> 1]
    /\ log[1].taken /\ log[1].from = 0 /\ log[1].to = 4
    /\ log[2].taken /\ log[2].to = 9

---------------------------------------------------------------------------
(* The cursor of the reader over any sequence of its calls (SpecReader) *)

\* C14: the cursor position 8 * byteI + bitI never decreases across readBits,
\* alignToByte and readVarInt calls, bitI stays in 0..7, and bytesLeft() is never
\* negative, also once the cursor is past the end of the buffer.
C14_CursorOnlyAdvances ==
    /\ [](bitI \in 0..7)
    /\ [](bytesLeft(bytes, byteI) >= 0 /\ last.left >= 0)
    /\ [][8 * byteI' + bitI' >= 8 * byteI + bitI]_vars

\* a readVarInt that started between two bytes and left the cursor past the end
C14_Witness ==
    /\ last.op = "readVarInt" /\ last.from % 8 # 0
    /\ byteI > Len(bytes) /\ bitI = 0
    /\ Pos > last.from
    /\ last.left = 0

=============================================================================
